---- MODULE Spec2Model ----
(***************************************************************************)
(* Collision-aware movement and orbit camera of the maze viewer            *)
(* (cubemaps_environment_mapping.cpp).                                     *)
(*                                                                         *)
(* Numbers.  The program computes in float; the model computes in          *)
(* integers on fixed grids, so that every comparison is exact:             *)
(*   lengths    Grid steps per world unit  (0.5f is Grid \div 2),          *)
(*   time       Grid ticks per second, so that objectSpeed * deltaTime is  *)
(*              a whole number of length steps,                            *)
(*   angles     hundredths of a degree (89.0f is 8900),                    *)
(*   pointer    whole pixels, scroll in whole notches.                     *)
(* Every literal of the maze is a multiple of 0.1 and is exact on the      *)
(* grid.  Float rounding is not modelled.                                  *)
(***************************************************************************)
EXTENDS Integers, Sequences, FiniteSets

VARIABLES
    objectPos,     \* glm::vec3 objectPos
    deltaTime,     \* float deltaTime, set by the main loop before processInput
    camYaw,        \* float camYaw
    camPitch,      \* float camPitch
    camDistance,   \* float camDistance
    lastX,         \* float lastX
    lastY,         \* float lastY
    firstMouse,    \* bool firstMouse
    fromPos,       \* history: objectPos when the last processInput began
    desired,       \* history: the local `desired` of the last processInput
    probe          \* inputs and result of a standalone sphereIntersectsAABB call

vars == <<objectPos, deltaTime, camYaw, camPitch, camDistance,
          lastX, lastY, firstMouse, fromPos, desired, probe>>

camVars == <<camYaw, camPitch, camDistance, lastX, lastY, firstMouse>>
moveVars == <<objectPos, deltaTime, fromPos, desired>>

---------------------------------------------------------------------------
(* Units *)

Grid == 4 * 100                    \* length steps per world unit, ticks per second
Tenth(n) == n * (Grid \div 10)     \* n tenths of a world unit (or of a second)
Deg(n) == n * 100                  \* n degrees

Min(a, b) == IF a < b THEN a ELSE b
Max(a, b) == IF a > b THEN a ELSE b

Vec3(x, y, z) == [x |-> x, y |-> y, z |-> z]
Box(mn, mx) == [min |-> mn, max |-> mx]
BoxT(a, b, c, d, e, f) ==
    Box(Vec3(Tenth(a), Tenth(b), Tenth(c)), Vec3(Tenth(d), Tenth(e), Tenth(f)))

---------------------------------------------------------------------------
(* Globals and their initial values *)

SCR_WIDTH == 800
SCR_HEIGHT == 600
mouseSensitivity == 12             \* 0.12 degrees per pixel
objectSpeed == 4                   \* world units per second
objectRadius == Grid \div 2        \* 0.5f
startPos == Vec3(Tenth(-170), 0, Tenth(-170))

\* main: BUILD MAZE
platforms ==
    << BoxT(-200, -1, -200,   200,  0,  200),
       BoxT(-120,  6,   60,   -40, 16,  100),
       BoxT(  60, 11,  -80,   120, 21,  -20) >>

obstacles ==
    << BoxT(-195, 0, -195,  -185, 25,  195),
       BoxT( 185, 0, -195,   195, 25,  195),
       BoxT(-195, 0,  185,   195, 25,  195),
       BoxT(-195, 0, -195,   195, 25, -185),
       BoxT(-120, 0, -120,  -110, 22,   60),
       BoxT( -60, 0,  -60,    60, 20,  -50),
       BoxT(  50, 0,  -30,    60, 20,  130),
       BoxT( -20, 0,   20,   100, 20,   30),
       BoxT(-100, 0,   75,    -5, 22,   85),
       BoxT( -40, 0,   40,   -30, 20,  140),
       BoxT(  20, 0,  100,    40, 16,  120),
       BoxT( -80, 0,  -30,   -65, 16,  -10) >>

---------------------------------------------------------------------------
(* Collision and support queries *)

\* an overlap test that counts a touching sphere
sphereTouchesAABB(center, radius, b) ==
    LET x == Max(b.min.x, Min(center.x, b.max.x))
        y == Max(b.min.y, Min(center.y, b.max.y))
        z == Max(b.min.z, Min(center.z, b.max.z))
        distSq == (x - center.x) * (x - center.x)
                  + (y - center.y) * (y - center.y)
                  + (z - center.z) * (z - center.z)
    IN  distSq <= radius * radius

sphereIntersectsAABB(center, radius, b) ==
    LET x == Max(b.min.x, Min(center.x, b.max.x))
        y == Max(b.min.y, Min(center.y, b.max.y))
        z == Max(b.min.z, Min(center.z, b.max.z))
        distSq == (x - center.x) * (x - center.x)
                  + (y - center.y) * (y - center.y)
                  + (z - center.z) * (z - center.z)
    IN  distSq < radius * radius

collidesWithAnyObstacle(center, radius) ==
    \E i \in 1..Len(obstacles) : sphereIntersectsAABB(center, radius, obstacles[i])

bestInit == -1000000000            \* float best = -1e9f

\* a containment test that leaves the edges out
platformContainsOpen(p, x, z) ==
    x > p.min.x /\ x < p.max.x /\ z > p.min.z /\ z < p.max.z

platformContains(p, x, z) ==
    x >= p.min.x /\ x <= p.max.x /\ z >= p.min.z /\ z <= p.max.z

platformBetter(p, best) == p.max.y > best

RECURSIVE scanPlatforms(_, _, _, _, _)
scanPlatforms(i, x, z, found, best) ==
    IF i > Len(platforms) THEN [found |-> found, top |-> best]
    ELSE IF platformContains(platforms[i], x, z) /\ platformBetter(platforms[i], best)
         THEN scanPlatforms(i + 1, x, z, TRUE, platforms[i].max.y)
         ELSE scanPlatforms(i + 1, x, z, found, best)

\* returns [found, top]; top is meaningful only when found
highestPlatformTopAtXZ(x, z) == scanPlatforms(1, x, z, FALSE, bestInit)

---------------------------------------------------------------------------
(* processInput *)

Keys == {"W", "S", "A", "D"}

\* cos and sin of a yaw on the quarter turns, where they are exact
cosYaw(yaw) ==
    CASE yaw % Deg(360) = Deg(0)   -> 1
      [] yaw % Deg(360) = Deg(90)  -> 0
      [] yaw % Deg(360) = Deg(180) -> -1
      [] yaw % Deg(360) = Deg(270) -> 0

sinYaw(yaw) ==
    CASE yaw % Deg(360) = Deg(0)   -> 0
      [] yaw % Deg(360) = Deg(90)  -> 1
      [] yaw % Deg(360) = Deg(180) -> 0
      [] yaw % Deg(360) = Deg(270) -> -1

forwardOf(yaw) == Vec3(cosYaw(yaw), 0, sinYaw(yaw))

\* the cross product taken the other way round: cross((0,1,0), forward)
rightOfFlipped(yaw) ==
    LET f == forwardOf(yaw)
    IN  Vec3(1 * f.z - 0 * f.y, 0 * f.x - 0 * f.z, 0 * f.y - 1 * f.x)

\* cross(forward, (0,1,0))
rightOf(yaw) ==
    LET f == forwardOf(yaw)
    IN  Vec3(f.y * 0 - f.z * 1, f.z * 0 - f.x * 0, f.x * 1 - f.y * 0)

\* a velocity that forgets the frame time
velocityPerFrame(dt) == objectSpeed

velocityOf(dt) == objectSpeed * dt

addScaled(p, d, s) == Vec3(p.x + d.x * s, p.y + d.y * s, p.z + d.z * s)

desiredOf(pos, yaw, keys, dt) ==
    LET forward == forwardOf(yaw)
        right == rightOf(yaw)
        velocity == velocityOf(dt)
        d0 == pos
        d1 == IF "W" \in keys THEN addScaled(d0, forward, velocity) ELSE d0
        d2 == IF "S" \in keys THEN addScaled(d1, forward, -velocity) ELSE d1
        d3 == IF "A" \in keys THEN addScaled(d2, right, -velocity) ELSE d2
        d4 == IF "D" \in keys THEN addScaled(d3, right, velocity) ELSE d3
    IN  [d4 EXCEPT !.y = pos.y]

\* a slide that tests both axes from the pre-move position
slideIndependent(pos, want) ==
    LET tryX == [pos EXCEPT !.x = want.x]
        tryZ == [pos EXCEPT !.z = want.z]
        p1 == IF ~collidesWithAnyObstacle(tryX, objectRadius)
              THEN [pos EXCEPT !.x = tryX.x] ELSE pos
    IN  IF ~collidesWithAnyObstacle(tryZ, objectRadius)
        THEN [p1 EXCEPT !.z = tryZ.z] ELSE p1

\* a slide that tries Z before X
slideZFirst(pos, want) ==
    LET tryZ == [pos EXCEPT !.z = want.z]
        p1 == IF ~collidesWithAnyObstacle(tryZ, objectRadius)
              THEN [pos EXCEPT !.z = tryZ.z] ELSE pos
        tryX == [p1 EXCEPT !.x = want.x]
    IN  IF ~collidesWithAnyObstacle(tryX, objectRadius)
        THEN [p1 EXCEPT !.x = tryX.x] ELSE p1

\* no slide at all: a blocked move stays where it was
slideStop(pos, want) == pos

\* the else branch of the collision handling: try X, then Z from the result
slide(pos, want) ==
    LET tryX == [pos EXCEPT !.x = want.x]
        p1 == IF ~collidesWithAnyObstacle(tryX, objectRadius)
              THEN [pos EXCEPT !.x = tryX.x] ELSE pos
        tryZ == [p1 EXCEPT !.z = want.z]
    IN  IF ~collidesWithAnyObstacle(tryZ, objectRadius)
        THEN [p1 EXCEPT !.z = tryZ.z] ELSE p1

resolveMove(pos, want) ==
    LET collide == collidesWithAnyObstacle(want, objectRadius)
    IN  IF ~collide THEN want ELSE slide(pos, want)

snapY(pos) ==
    LET r == highestPlatformTopAtXZ(pos.x, pos.z)
    IN  IF r.found THEN [pos EXCEPT !.y = r.top] ELSE pos

---------------------------------------------------------------------------
(* Bounds of the explored inputs *)

MaxCoord == 21                     \* frames that aim beyond this many units are not explored

InWorld(p) ==
    /\ p.x >= -(MaxCoord * Grid) /\ p.x <= MaxCoord * Grid
    /\ p.z >= -(MaxCoord * Grid) /\ p.z <= MaxCoord * Grid

KeySets == SUBSET Keys

\* frame times of whole steps of 3/8 s (1.5 world units at objectSpeed): the
\* positions reached from startPos then include faces at distance exactly
\* objectRadius, platform edges, and places beyond the boundary walls
FrameStep == 3 * (Grid \div 8)
MaxSteps == 2
FrameTimes == {q * FrameStep : q \in 0..MaxSteps}

---------------------------------------------------------------------------
(* Actions *)

InitProgram ==
    /\ objectPos = startPos
    /\ deltaTime = 0
    /\ camYaw = Deg(-90)
    /\ camPitch = Deg(12)
    /\ camDistance = Tenth(30)
    /\ lastX = SCR_WIDTH \div 2
    /\ lastY = SCR_HEIGHT \div 2
    /\ firstMouse = TRUE
    /\ fromPos = startPos
    /\ desired = startPos

Init == InitProgram /\ probe = [phase |-> "idle"]

\* one iteration of the main loop up to the end of processInput, with the
\* keys in `keys` held and dt ticks since the previous iteration
Frame(keys, dt) ==
    LET want == desiredOf(objectPos, camYaw, keys, dt)
    IN  /\ InWorld(want)
        /\ deltaTime' = dt
        /\ objectPos' = snapY(resolveMove(objectPos, want))
        /\ fromPos' = objectPos
        /\ desired' = want
        /\ UNCHANGED <<camVars, probe>>

\* a clamp that forgets the lower limit
clampPitchUpper(p) == IF p > Deg(89) THEN Deg(89) ELSE p

clampPitch(p) ==
    LET p1 == IF p > Deg(89) THEN Deg(89) ELSE p
    IN  IF p1 < Deg(-89) THEN Deg(-89) ELSE p1

\* a handler without the first-sample case
mouse_callbackNoFirst(xpos, ypos) ==
    /\ firstMouse' = FALSE
    /\ lastX' = xpos
    /\ lastY' = ypos
    /\ camYaw' = camYaw + (xpos - lastX) * mouseSensitivity
    /\ camPitch' = clampPitch(camPitch + (lastY - ypos) * mouseSensitivity)
    /\ UNCHANGED <<camDistance, moveVars, probe>>

mouse_callback(xpos, ypos) ==
    LET lx == IF firstMouse THEN xpos ELSE lastX
        ly == IF firstMouse THEN ypos ELSE lastY
        xoffset == (xpos - lx) * mouseSensitivity
        yoffset == (ly - ypos) * mouseSensitivity
    IN  /\ firstMouse' = FALSE
        /\ lastX' = xpos
        /\ lastY' = ypos
        /\ camYaw' = camYaw + xoffset
        /\ camPitch' = clampPitch(camPitch + yoffset)
        /\ UNCHANGED <<camDistance, moveVars, probe>>

\* a scroll step of the opposite sign
scrollStepAdd(yoffset) == -(yoffset * Tenth(4))

scrollStep(yoffset) == yoffset * Tenth(4)

clampDistance(d) == Max(Tenth(12), Min(Tenth(100), d))

scroll_callback(yoffset) ==
    /\ camDistance' = clampDistance(camDistance - scrollStep(yoffset))
    /\ UNCHANGED <<camYaw, camPitch, lastX, lastY, firstMouse, moveVars, probe>>

---------------------------------------------------------------------------
(* The simulation loop driven by the keyboard, heading as initialised *)

StepFrame == \E keys \in KeySets, dt \in FrameTimes : Frame(keys, dt)

Next == StepFrame

Spec == Init /\ [][Next]_vars

---------------------------------------------------------------------------
(* The three handlers together: pointer and scroll explored in full, the  *)
(* keyboard with forward alone and a long frame                           *)

\* a quarter turn of yaw, a small and a large change of pitch, in pixels
QuarterTurnPx == Deg(90) \div mouseSensitivity
NearPx == Deg(36) \div mouseSensitivity
FarPx == Deg(1008) \div mouseSensitivity
MaxFar == 1
PointerXs == {SCR_WIDTH \div 2, SCR_WIDTH \div 2 + QuarterTurnPx}
PointerYs == {SCR_HEIGHT \div 2 + k * FarPx : k \in -MaxFar..MaxFar}
             \cup {SCR_HEIGHT \div 2 + NearPx}

\* one notch either way, and the notches that change the distance by 1000 units
BigScroll == Tenth(10000) \div Tenth(4)
ScrollYs == {-BigScroll, -1, 1, BigScroll}

SlowFrame == 5 * (Grid \div 2)

CamFrame == \E keys \in {{}, {"W"}} : Frame(keys, SlowFrame)
CamMouse == \E xpos \in PointerXs, ypos \in PointerYs : mouse_callback(xpos, ypos)
CamScroll == \E yoffset \in ScrollYs : scroll_callback(yoffset)

NextCamera == CamFrame \/ CamMouse \/ CamScroll

SpecCamera == Init /\ [][NextCamera]_vars

---------------------------------------------------------------------------
(* The wall scenario: only the left key is held, frame times of 0, 2.5 ms, *)
(* 25 ms, 0.25 s and 1 s                                                   *)

WallTimes == {0, 1, 10, Grid \div 4, Grid}

NextWall == \E dt \in WallTimes : Frame({"A"}, dt)

SpecWall == Init /\ [][NextWall]_vars

---------------------------------------------------------------------------
(* Claims about the move resolution, checked under Spec *)

hits(p) == collidesWithAnyObstacle(p, objectRadius)

\* what the last frame worked with
tryXOnly == [fromPos EXCEPT !.x = desired.x]   \* desired X, prior Z
tryZOnly == [fromPos EXCEPT !.z = desired.z]   \* prior X, desired Z
movedPos == [objectPos EXCEPT !.y = fromPos.y] \* the position before the snap

\* C1: from a position that overlaps no obstacle, the position produced by
\* the collision step of a frame, before the vertical snap, overlaps no
\* obstacle.
C1_MoveStaysClear == ~hits(fromPos) => ~hits(movedPos)

\* a frame whose desired position was blocked and that slid to a new place
C1_Witness ==
    /\ ~hits(fromPos) /\ hits(desired)
    /\ movedPos # fromPos /\ ~hits(movedPos)

\* C2 as stated: when the desired position is blocked, each axis is applied
\* if and only if its own single-axis candidate, taken from the pre-move
\* position, does not collide.
C2_AxesIndependent ==
    (~hits(fromPos) /\ hits(desired)) =>
        /\ (objectPos.x = desired.x) <=> ~hits(tryXOnly)
        /\ (objectPos.z = desired.z) <=> ~hits(tryZOnly)

\* C2 amended: when the desired position is blocked, X is applied if and
\* only if the X-only candidate does not collide, and Z is applied if and
\* only if the X-only candidate collides and the Z-only candidate does not;
\* with both single-axis candidates free, only X is applied.
C2_XThenZ ==
    hits(desired) =>
        /\ objectPos.x = IF ~hits(tryXOnly) THEN desired.x ELSE fromPos.x
        /\ objectPos.z = IF hits(tryXOnly) /\ ~hits(tryZOnly)
                         THEN desired.z ELSE fromPos.z

\* a diagonal move into a corner: blocked, both single-axis candidates free
C2_Witness ==
    /\ ~hits(fromPos) /\ hits(desired)
    /\ desired.x # fromPos.x /\ desired.z # fromPos.z
    /\ ~hits(tryXOnly) /\ ~hits(tryZOnly)
    /\ objectPos.x = desired.x /\ objectPos.z = fromPos.z

\* C3: if the desired position collides, the X-only candidate does not and
\* the Z-only candidate does, the resolved position has the desired X and
\* the prior Z.
C3_SlideAlongX ==
    (~hits(fromPos) /\ hits(desired) /\ ~hits(tryXOnly) /\ hits(tryZOnly)) =>
        (objectPos.x = desired.x /\ objectPos.z = fromPos.z)

C3_Witness ==
    /\ ~hits(fromPos) /\ hits(desired) /\ ~hits(tryXOnly) /\ hits(tryZOnly)
    /\ desired.x # fromPos.x /\ desired.z # fromPos.z
    /\ objectPos.x = desired.x

\* C5: after a frame, if some platform's horizontal span contains (x, z),
\* bounds included, y is the greatest top among those platforms; if none
\* does, y is what it was before the frame.
C5_SnapToHighestTop ==
    LET over == {i \in 1..Len(platforms) :
                    /\ platforms[i].min.x <= objectPos.x
                    /\ objectPos.x <= platforms[i].max.x
                    /\ platforms[i].min.z <= objectPos.z
                    /\ objectPos.z <= platforms[i].max.z}
    IN  IF over = {}
        THEN objectPos.y = fromPos.y
        ELSE /\ \E i \in over : objectPos.y = platforms[i].max.y
             /\ \A i \in over : platforms[i].max.y <= objectPos.y

\* standing on the far edge (z = 10) of the platform with top 1.6, which
\* lies over the ground platform
C5_Witness ==
    /\ objectPos.z = Tenth(100) /\ objectPos.y = Tenth(16)
    /\ fromPos.y = 0

\* a frame that ended beyond the ground platform, where nothing supports
C5_NoSupportReached ==
    /\ objectPos.x > Tenth(200) /\ objectPos.y = fromPos.y

\* C9: a frame whose desired position is the current one (no key's
\* displacement, or a zero frame time) leaves a non-colliding position
\* unchanged in x and z, and resolving once more from the result changes
\* nothing.
C9_NoMoveKeepsPlace ==
    ((deltaTime = 0 \/ desired = fromPos) /\ ~hits(fromPos)) =>
        /\ objectPos.x = fromPos.x /\ objectPos.z = fromPos.z
        /\ resolveMove(objectPos, objectPos) = objectPos

\* a zero-time frame taken away from the start position
C9_Witness ==
    /\ deltaTime = 0 /\ ~hits(fromPos) /\ fromPos = objectPos
    /\ objectPos # startPos

---------------------------------------------------------------------------
(* Claims about the orbit camera, checked under SpecCamera *)

PitchInRange == camPitch >= Deg(-89) /\ camPitch <= Deg(89)
DistanceInRange == camDistance >= Tenth(12) /\ camDistance <= Tenth(100)

\* the change of pitch a step asks for, before the clamp
pitchAsked == (lastY - lastY') * mouseSensitivity

\* C6: pitch starts in [-89, 89] and stays there through every pointer
\* event, scroll event and frame; a later sample that asks for +1000 degrees
\* or more leaves it at exactly 89, and one that asks for -1000 or less at
\* exactly -89.
C6_PitchClamped ==
    /\ PitchInRange
    /\ [][ /\ PitchInRange'
           /\ (~firstMouse /\ pitchAsked >= Deg(1000)) => camPitch' = Deg(89)
           /\ (~firstMouse /\ pitchAsked <= Deg(-1000)) => camPitch' = Deg(-89)
         ]_vars

\* pitch at the upper limit, the pointer at its highest sample
C6_Witness ==
    /\ ~firstMouse /\ camPitch = Deg(89)
    /\ lastY = SCR_HEIGHT \div 2 - MaxFar * FarPx

\* C7: distance starts in [1.2, 10.0] and stays there; a scroll of yoffset
\* takes the distance to (distance - 0.4 * yoffset) clamped into that range,
\* so an update of -1000 gives exactly 1.2 and one of +1000 exactly 10.0.
C7_DistanceClamped ==
    /\ DistanceInRange
    /\ [][ /\ DistanceInRange'
           /\ \A yoffset \in ScrollYs : scroll_callback(yoffset) =>
                LET asked == camDistance - 4 * (Grid \div 10) * yoffset
                IN  /\ camDistance' = IF asked < Tenth(12) THEN Tenth(12)
                                      ELSE IF asked > Tenth(100) THEN Tenth(100)
                                      ELSE asked
                    /\ yoffset = BigScroll => camDistance' = Tenth(12)
                    /\ yoffset = -BigScroll => camDistance' = Tenth(100)
         ]_vars

\* zoomed in to the limit and then out by one notch
C7_Witness == camDistance = Tenth(12) + Tenth(4)

\* C10: the first pointer sample leaves yaw and pitch alone, becomes the
\* last sample and clears the flag; every later sample adds
\* (x - lastX) * sensitivity to yaw and (lastY - y) * sensitivity to pitch,
\* which is then clamped.
C10_FirstSampleNoJump ==
    [][ \A xpos \in PointerXs, ypos \in PointerYs : mouse_callback(xpos, ypos) =>
          /\ lastX' = xpos /\ lastY' = ypos /\ ~firstMouse'
          /\ firstMouse => (camYaw' = camYaw /\ camPitch' = camPitch)
          /\ ~firstMouse =>
                /\ camYaw' = camYaw + (xpos - lastX) * mouseSensitivity
                /\ camPitch' = Max(Deg(-89), Min(Deg(89),
                                   camPitch + (lastY - ypos) * mouseSensitivity))
      ]_vars

\* the first sample arrived away from the screen centre and the angles are
\* the initial ones
C10_Witness ==
    /\ ~firstMouse
    /\ lastX = SCR_WIDTH \div 2 + QuarterTurnPx
    /\ lastY = SCR_HEIGHT \div 2 - FarPx
    /\ camYaw = Deg(-90) /\ camPitch = Deg(12)

---------------------------------------------------------------------------
(* The wall scenario, checked under SpecWall *)

\* C4: with only the left key held, for every sequence of frame times, the
\* actor's x stays at or above the wall face plus the radius, -18.0.
C4_StopsAtWallFace == objectPos.x >= Tenth(-185) + objectRadius

---------------------------------------------------------------------------
(* sphereIntersectsAABB on its own: boxes with corners in 0..ProbeMax,     *)
(* centers up to four steps outside them, radii 1 and 5                    *)

ProbeMax == 1
BoxCoords == 0..ProbeMax
CenterCoords == {-4, -3, -1} \cup BoxCoords
                \cup {ProbeMax + 1, ProbeMax + 3, ProbeMax + 4}
ProbeRadii == {1, 5}

ProbeBoxes ==
    {Box(Vec3(x1, y1, z1), Vec3(x2, y2, z2)) :
        x1 \in BoxCoords, x2 \in BoxCoords, y1 \in BoxCoords, y2 \in BoxCoords,
        z1 \in BoxCoords, z2 \in BoxCoords}

InitSphere ==
    /\ InitProgram
    /\ \E c \in CenterCoords \X CenterCoords \X CenterCoords,
          r \in ProbeRadii, b \in ProbeBoxes :
            /\ b.min.x <= b.max.x /\ b.min.y <= b.max.y /\ b.min.z <= b.max.z
            /\ probe = [phase |-> "ready", center |-> Vec3(c[1], c[2], c[3]),
                        radius |-> r, box |-> b]

CallSphere ==
    /\ probe.phase = "ready"
    /\ probe' = [phase |-> "done", center |-> probe.center,
                 radius |-> probe.radius, box |-> probe.box,
                 hit |-> sphereIntersectsAABB(probe.center, probe.radius, probe.box)]
    /\ UNCHANGED <<camVars, moveVars>>

SpecSphere == InitSphere /\ [][CallSphere]_vars

\* squared distance between two points
distSqTo(c, p) ==
    (c.x - p.x) * (c.x - p.x) + (c.y - p.y) * (c.y - p.y) + (c.z - p.z) * (c.z - p.z)

\* the points of a box (its corners are whole numbers, and so is the center,
\* so the nearest point of the box is one of these)
pointsOf(b) ==
    {Vec3(x, y, z) : x \in b.min.x..b.max.x, y \in b.min.y..b.max.y,
                     z \in b.min.z..b.max.z}

nearestSq(c, b) ==
    CHOOSE d \in {distSqTo(c, p) : p \in pointsOf(b)} :
        \A p \in pointsOf(b) : d <= distSqTo(c, p)

\* C8: the test answers true exactly when the nearest point of the box is
\* strictly closer to the center than the radius; a sphere that touches the
\* box is not a collision, a center inside the box is one.
C8_StrictlyInsideRadius ==
    probe.phase = "done" =>
        LET d == nearestSq(probe.center, probe.box)
            rr == probe.radius * probe.radius
        IN  /\ probe.hit <=> d < rr
            /\ d = rr => ~probe.hit
            /\ d = 0 => probe.hit

\* a sphere of radius 5 touching a box edge at offsets 3 and 4
C8_Witness ==
    /\ probe.phase = "done" /\ probe.radius = 5
    /\ probe.center.x = probe.box.max.x + 3
    /\ probe.center.y = probe.box.min.y - 4
    /\ probe.center.z = probe.box.min.z
    /\ ~probe.hit

---------------------------------------------------------------------------
(* Keyboard and heading together: every key combination, the pointer       *)
(* turning the heading by quarter turns either way, frames of 0 and 2.5 s  *)

HeadingXs == {SCR_WIDTH \div 2 - QuarterTurnPx, SCR_WIDTH \div 2,
              SCR_WIDTH \div 2 + QuarterTurnPx}
HeadingTimes == {0, SlowFrame}

HeadingFrame == \E keys \in KeySets, dt \in HeadingTimes : Frame(keys, dt)
HeadingTurn == \E xpos \in HeadingXs : mouse_callback(xpos, SCR_HEIGHT \div 2)

NextHeading == HeadingFrame \/ HeadingTurn

SpecHeading == Init /\ [][NextHeading]_vars

\* 1 if the key is held, else 0
held(keys, k) == IF k \in keys THEN 1 ELSE 0

\* C11: in each frame the desired position is the current position plus
\* speed * deltaTime times the plain sum of the held keys' unit directions
\* (forward = (cos yaw, 0, sin yaw), right = (-sin yaw, 0, cos yaw), back and
\* left their negations): two perpendicular keys give a displacement of
\* squared length 2 * (speed * deltaTime)^2, opposite keys cancel, and
\* desired.y is the current y.
C11_DesiredIsSumOfKeys ==
    [][ \A keys \in KeySets, dt \in HeadingTimes : Frame(keys, dt) =>
          LET c == cosYaw(camYaw)
              s == sinYaw(camYaw)
              along == held(keys, "W") - held(keys, "S")
              across == held(keys, "D") - held(keys, "A")
              step == objectSpeed * dt
              dx == step * (along * c - across * s)
              dz == step * (along * s + across * c)
          IN  /\ desired'.x = objectPos.x + dx
              /\ desired'.z = objectPos.z + dz
              /\ desired'.y = objectPos.y
              /\ (along # 0 /\ across # 0) => dx * dx + dz * dz = 2 * step * step
              /\ (along = 0 /\ across = 0) => desired' = objectPos
      ]_vars

\* the heading turned to yaw 0, and the last frame a 2.5 s one with two
\* perpendicular keys held: both axes moved by the full speed * deltaTime
C11_Witness ==
    /\ camYaw = Deg(0) /\ deltaTime = SlowFrame
    /\ desired.x = fromPos.x + objectSpeed * deltaTime
    /\ desired.z = fromPos.z + objectSpeed * deltaTime
    /\ desired.y = fromPos.y

---------------------------------------------------------------------------
(* Stepping off the raised platform: every key combination, heading as     *)
(* initialised, and a frame time with which nine frames of the right key   *)
(* take the actor from the start to 0.49 units beyond the plane x = 6,     *)
(* the edge of the platform with top 2.1 and the face of the walls of      *)
(* height 2.0 beside it                                                    *)

NearFace == (49 * Grid) \div 100
StepOffTime == (Tenth(60) + NearFace - startPos.x) \div (9 * objectSpeed)
StepOffTimes == {0, StepOffTime}

NextStepOff == \E keys \in KeySets, dt \in StepOffTimes : Frame(keys, dt)

SpecStepOff == Init /\ [][NextStepOff]_vars

\* C12: after every frame the actor's final position, with the y the snap
\* gave it, overlaps no obstacle.
C12_NeverOverlaps == ~hits(objectPos)

====
